---- MODULE Spec2Model ----
(***************************************************************************)
(* Model of src/main.py: the deposit-sheet -> store synchroniser.          *)
(*                                                                         *)
(*   * the per-sheet normalisation pipeline of run_sync_process (header    *)
(*     strip, pandas coercions, junk filter, generar_id_unico + uuid5,     *)
(*     the two in-batch dedup filters, record building, sanitising);       *)
(*   * the cycle itself: entry guard, connection phase, per-sheet          *)
(*     upsert + sweep against the store, completion writes;                *)
(*   * the callers: the periodic loop's worker thread and the background   *)
(*     task started by GET /trigger-sync.                                  *)
(*                                                                         *)
(* Strings are TLA+ strings; the joins of the code are \o concatenations.  *)
(* Conversions of cell text (strip, comma removal, to_numeric, str(),      *)
(* epoch -> strftime) are tabulated on the finite cell universes below.    *)
(* md5 and uuid5 are modelled as injective tagging of their argument.      *)
(***************************************************************************)
EXTENDS Integers, Sequences, FiniteSets, TLC

(***************************************************************************)
(* Bounds of the model.                                                    *)
(***************************************************************************)
\* most data rows of one sheet in the normalisation harness
MaxRows == 2
\* most data rows of one sheet in a fetch of the running system
MaxSheetRows == 1
\* last value of the wall clock
MaxClock == 2
\* most cells of a header row
MaxHeaders == 3

(***************************************************************************)
(* Configuration (src/main.py:22-33).                                      *)
(***************************************************************************)
\* the first two of the seven sheet names of SHEET_NAMES
SHEET_NAMES == <<"M1", "M2">>

CRON_SECRET == "s3cret"

PENDING_SENTINEL == "ALREADY FOLLOW UP"

CLEARED_SENTINEL == "CLEARED_AUTO"

(***************************************************************************)
(* Cell universes: the text of the cells a fetched data row can hold.      *)
(***************************************************************************)
DepCells == {"a", "a_b"}

UserCells == {"c", "b_c", " ", "None"}

AmountCells == {"", "0", "1,200.50"}

DateCells == {"", "1700000000"}

StatusCells == {"ALREADY FOLLOW UP", "PENDING"}

\* the text of the cells of a header row
HeaderCells == {"USERNAME", "USERNAME ", "AMOUNT", "", " "}

\* a data row of a sheet, keyed by the (well-formed) header names
RawRows ==
    [DEPOSIT_ID : DepCells, USERNAME : UserCells, AMOUNT : AmountCells,
     DATE_POSTED : DateCells, Status : StatusCells]

RECURSIVE SeqsUpTo(_, _)
SeqsUpTo(S, n) ==
    IF n = 0 THEN {<<>>}
    ELSE LET shorter == SeqsUpTo(S, n - 1)
         IN  shorter \cup {Append(s, x) : s \in {q \in shorter : Len(q) = n - 1}, x \in S}

(***************************************************************************)
(* Python / pandas value conversions.                                      *)
(***************************************************************************)
\* a pandas numeric cell: k is "nan", "int" (int64) or "float" (float64);
\* v is the integer part of the value and f its hundredths
NaN == [k |-> "nan", v |-> 0, f |-> 0]

\* the null the store receives
NULL == "null"

\* str.strip()
strip(s) ==
    CASE s = " "         -> ""
      [] s = "USERNAME " -> "USERNAME"
      [] OTHER           -> s

\* Series.str.replace(',', '')
str_replace_comma(s) ==
    CASE s = "1,200.50" -> "1200.50"
      [] OTHER          -> s

\* line 120, f"col_extra_{j}"
col_extra(j) == "col_extra_" \o ToString(j)

\* line 120: the column names given to a header row (j counts from 0)
strip_headers(headers) ==
    [j \in 1..Len(headers) |->
        IF strip(headers[j]) # "" THEN strip(headers[j]) ELSE col_extra(j - 1)]

\* pd.to_numeric(..., errors='coerce') on one cell
to_numeric(s) ==
    CASE s = "0"          -> [k |-> "int", v |-> 0, f |-> 0]
      [] s = "1200.50"    -> [k |-> "float", v |-> 1200, f |-> 50]
      [] s = "1700000000" -> [k |-> "int", v |-> 1700000000, f |-> 0]
      [] OTHER            -> NaN

\* Python str() of a number out of a pandas row
py_str(x) ==
    CASE x.k = "nan" -> "nan"
      [] x.k = "int" /\ x.v = 0 /\ x.f = 0 -> "0"
      [] x.k = "float" /\ x.v = 0 /\ x.f = 0 -> "0.0"
      [] x.k = "float" /\ x.v = 1200 /\ x.f = 50 -> "1200.5"
      [] OTHER -> "?"

\* pd.to_datetime(unit='s') followed by dt.strftime('%Y-%m-%d %H:%M:%S%z'):
\* "nan" stands for the float NaN that strftime leaves for NaT
date_posted_iso(cell) ==
    LET n == to_numeric(cell)
    IN  CASE n.k = "nan" -> "nan"
          [] n.v = 1700000000 /\ n.f = 0 -> "2023-11-14 22:13:20"
          [] OTHER -> "nan"

\* the dtype pd.to_numeric gives the AMOUNT column: int64 only when every
\* cell parses as an integer, float64 as soon as one is NaN or fractional
amount_dtype(values) ==
    IF \A k \in 1..Len(values) :
           to_numeric(str_replace_comma(values[k].AMOUNT)).k = "int"
    THEN "int" ELSE "float"

as_dtype(x, dtype) ==
    IF x.k = "int" /\ dtype = "float" THEN [x EXCEPT !.k = "float"] ELSE x

\* lines 119-134: the DataFrame of one sheet after the column coercions
DataFrame(values) ==
    [k \in 1..Len(values) |->
        [DEPOSIT_ID      |-> values[k].DEPOSIT_ID,
         USERNAME        |-> values[k].USERNAME,
         AMOUNT          |-> as_dtype(to_numeric(str_replace_comma(values[k].AMOUNT)),
                                      amount_dtype(values)),
         DATE_POSTED     |-> values[k].DATE_POSTED,
         date_posted_iso |-> date_posted_iso(values[k].DATE_POSTED),
         Status          |-> values[k].Status]]

\* Python's None, as a value of the same shape as the numbers
None == [k |-> "none", v |-> 0, f |-> 0]

\* limpiar_valor on a number: None for NaN, float(valor) or int(valor) else
limpiar_valor(valor) == IF valor.k = "nan" THEN None ELSE valor

\* line 160, `limpiar_valor(amount_val) or 0`: None, 0 and 0.0 are falsy
amount_final(amount_val) ==
    LET c == limpiar_valor(amount_val)
    IN  IF c.k = "none" \/ (c.v = 0 /\ c.f = 0)
        THEN [k |-> "int", v |-> 0, f |-> 0] ELSE c

md5(s) == <<"md5", s>>

uuid5(h) == <<"uuid5", h>>

generar_id_unico(row, brand) ==
    md5(brand \o "_" \o row.DEPOSIT_ID \o "_" \o row.USERNAME \o "_"
        \o py_str(row.AMOUNT) \o "_" \o row.DATE_POSTED)

\* lines 153-154
record_id(row, sheet_name) == uuid5(generar_id_unico(row, sheet_name))

\* line 145
username_of(row) == strip(row.USERNAME)

\* lines 147-149: the junk filter
is_junk(row) ==
    /\ username_of(row) \in {"", "None", "nan"}
    /\ row.AMOUNT.k = "nan"

\* line 166
constraint_signature(row, sheet_name) ==
    sheet_name \o "|" \o username_of(row) \o "|"
        \o py_str(amount_final(row.AMOUNT)) \o "|" \o row.date_posted_iso

\* the id made to depend on the moment of the computation
build_record_stamped_id(row, sheet_name, t) ==
    [id              |-> <<record_id(row, sheet_name), t>>,
     deposit_id      |-> strip(row.DEPOSIT_ID),
     brand           |-> sheet_name,
     username        |-> username_of(row),
     amount          |-> <<amount_final(row.AMOUNT).v, amount_final(row.AMOUNT).f>>,
     status          |-> strip(row.Status),
     date_posted_iso |-> row.date_posted_iso,
     updated_at      |-> t]

\* lines 179-192
build_record(row, sheet_name, t) ==
    [id              |-> record_id(row, sheet_name),
     deposit_id      |-> strip(row.DEPOSIT_ID),
     brand           |-> sheet_name,
     username        |-> username_of(row),
     amount          |-> <<amount_final(row.AMOUNT).v, amount_final(row.AMOUNT).f>>,
     status          |-> strip(row.Status),
     date_posted_iso |-> row.date_posted_iso,
     updated_at      |-> t]

\* the row loop without the filter of lines 166-172
RECURSIVE row_loop_ids_only(_, _, _, _, _, _)
row_loop_ids_only(df, k, sheet_name, seen_ids, seen_constraints, t) ==
    IF k > Len(df) THEN <<>>
    ELSE LET row == df[k]
             rid == record_id(row, sheet_name)
         IN  IF is_junk(row) \/ rid \in seen_ids
             THEN row_loop_ids_only(df, k + 1, sheet_name, seen_ids, seen_constraints, t)
             ELSE <<build_record(row, sheet_name, t)>>
                  \o row_loop_ids_only(df, k + 1, sheet_name, seen_ids \cup {rid},
                                       seen_constraints, t)

\* lines 142-196: the row loop, from row k on
RECURSIVE row_loop(_, _, _, _, _, _)
row_loop(df, k, sheet_name, seen_ids, seen_constraints, t) ==
    IF k > Len(df) THEN <<>>
    ELSE LET row == df[k]
             rid == record_id(row, sheet_name)
             sig == constraint_signature(row, sheet_name)
         IN  IF is_junk(row)
             THEN row_loop(df, k + 1, sheet_name, seen_ids, seen_constraints, t)
             ELSE IF rid \in seen_ids
             THEN row_loop(df, k + 1, sheet_name, seen_ids, seen_constraints, t)
             ELSE IF sig \in seen_constraints
             THEN row_loop(df, k + 1, sheet_name, seen_ids \cup {rid},
                           seen_constraints, t)
             ELSE <<build_record(row, sheet_name, t)>>
                  \o row_loop(df, k + 1, sheet_name, seen_ids \cup {rid},
                              seen_constraints \cup {sig}, t)

\* sanitize_for_json on the list of records: the float NaN becomes null
sanitize_for_json(records) ==
    [k \in 1..Len(records) |->
        [records[k] EXCEPT !.date_posted_iso =
            IF @ = "nan" THEN NULL ELSE @]]

\* lines 119-200: what one sheet's rows become, stamped at time t
records_to_upload(values, sheet_name, t) ==
    sanitize_for_json(row_loop(DataFrame(values), 1, sheet_name, {}, {}, t))

(***************************************************************************)
(* The store: the "deposits" table, one record per id.                     *)
(***************************************************************************)
RECURSIVE upsert(_, _)
\* supabase upsert(on_conflict="id", ignore_duplicates=False): each record
\* is inserted, or overwrites the stored record of the same id
upsert(table, records) ==
    IF records = <<>> THEN table
    ELSE LET r    == Head(records)
             keys == DOMAIN table \cup {r.id}
         IN  upsert([x \in keys |-> IF x = r.id THEN r ELSE table[x]], Tail(records))

\* the sweep with .lte() for .lt()
sweep_match_lte(rec, sheet_name, threshold) ==
    /\ rec.brand = sheet_name
    /\ rec.status = PENDING_SENTINEL
    /\ rec.updated_at <= threshold

\* the filter of the sweep, lines 211-213
sweep_match(rec, sheet_name, threshold) ==
    /\ rec.brand = sheet_name
    /\ rec.status = PENDING_SENTINEL
    /\ rec.updated_at < threshold

\* lines 210-214: update({"status": "CLEARED_AUTO"}).eq().eq().lt()
sweep(table, sheet_name, threshold) ==
    [x \in DOMAIN table |->
        IF sweep_match(table[x], sheet_name, threshold)
        THEN [table[x] EXCEPT !.status = CLEARED_SENTINEL]
        ELSE table[x]]

(***************************************************************************)
(* What values_batch_get can return in the running system.                 *)
(***************************************************************************)
RowA ==
    [DEPOSIT_ID |-> "a", USERNAME |-> "c", AMOUNT |-> "1,200.50",
     DATE_POSTED |-> "1700000000", Status |-> "ALREADY FOLLOW UP"]

\* RowA with its DEPOSIT ID typed again
RowB == [RowA EXCEPT !.DEPOSIT_ID = "a_b"]

\* RowA in a status the sweep does not look for
RowC == [RowA EXCEPT !.Status = "PENDING"]

SheetRows(sheet_name) == IF sheet_name = "M1" THEN {RowA, RowB} ELSE {RowA, RowC}

\* one range of the reply: the data rows under the header, and whether a data
\* row has more cells than the header (pd.DataFrame then raises ValueError)
SheetRanges(sheet_name) ==
    {r \in [values : SeqsUpTo(SheetRows(sheet_name), MaxSheetRows),
            extra_cells : BOOLEAN] : r.extra_cells => r.values # <<>>}

FetchResults ==
    {f \in [1..Len(SHEET_NAMES) -> UNION {SheetRanges(SHEET_NAMES[j]) : j \in 1..Len(SHEET_NAMES)}] :
        \A j \in 1..Len(SHEET_NAMES) : f[j] \in SheetRanges(SHEET_NAMES[j])}

(***************************************************************************)
(* State.                                                                  *)
(***************************************************************************)
\* the worker thread of start_periodic_sync and the background task of
\* trigger_sync; both run run_sync_process
Threads == {"loop", "bg"}

\* last_run before the first completed cycle ("Nunca")
Nunca == -1

VARIABLES
    now,                  \* the wall clock read by datetime.now()
    last_execution_info,  \* the module-level status dictionary
    store,                \* the deposits table: id -> record
    pc,                   \* where each thread is in run_sync_process
    cycle_start_time,     \* per thread, line 76
    batch_results,        \* per thread, line 99
    i,                    \* per thread, the index of the sheet loop
    records,              \* per thread, records_to_upload / safe_records
    total_nuevos,         \* per thread, line 110
    synced,               \* per sheet: values and ids of the last batch upserted
    raced,                \* a guard was passed while another thread stood
                          \* between its own guard and its write of "Running"
    http,                 \* the last request trigger_sync served and its reply
    snapshot,             \* what home returned last
    before_update,        \* the dictionary as it was before line 226 of the
                          \* completion in progress
    n_pc, n_sheet, n_values, n_batch,  \* the normalisation harness
    original_headers, final_headers    \* its header row, line 119-120

vars ==
    <<now, last_execution_info, store, pc, cycle_start_time, batch_results, i,
      records, total_nuevos, synced, raced, http, snapshot, before_update,
      n_pc, n_sheet, n_values, n_batch, original_headers, final_headers>>

obsvars == <<http, snapshot, before_update>>

sysvars ==
    <<now, last_execution_info, store, pc, cycle_start_time, batch_results, i,
      records, total_nuevos, synced, raced, obsvars>>

normvars == <<n_pc, n_sheet, n_values, n_batch, original_headers, final_headers>>

NoRange == [values |-> <<>>, extra_cells |-> FALSE]

NoResults == [j \in 1..Len(SHEET_NAMES) |-> NoRange]

NeverSynced == [done |-> FALSE, values |-> <<>>, ids |-> {}]

\* no request served yet
NoRequest == [secret |-> "", status_code |-> 0, message |-> ""]

\* nothing returned yet, no completion in progress
NoInfo == [status |-> "", last_run |-> Nunca, records_processed |-> 0]

InitSys ==
    /\ now = 0
    /\ last_execution_info =
           [status |-> "Idle", last_run |-> Nunca, records_processed |-> 0]
    /\ store = <<>>
    /\ pc = [t \in Threads |-> "idle"]
    /\ cycle_start_time = [t \in Threads |-> 0]
    /\ batch_results = [t \in Threads |-> NoResults]
    /\ i = [t \in Threads |-> 1]
    /\ records = [t \in Threads |-> <<>>]
    /\ total_nuevos = [t \in Threads |-> 0]
    /\ synced = [j \in 1..Len(SHEET_NAMES) |-> NeverSynced]
    /\ raced = FALSE
    /\ http = NoRequest
    /\ snapshot = NoInfo
    /\ before_update = NoInfo

InitNormIdle ==
    /\ n_pc = "off"
    /\ n_sheet = SHEET_NAMES[1]
    /\ n_values = <<>>
    /\ n_batch = <<>>
    /\ original_headers = <<>>
    /\ final_headers = <<>>

Init == InitSys /\ InitNormIdle

(***************************************************************************)
(* run_sync_process, step by step.                                         *)
(***************************************************************************)
ids_of(recs) == {recs[k].id : k \in 1..Len(recs)}

\* the entry guard left out
guard_always_passes(status) == TRUE

\* the entry guard letting in only a caller that finds "Idle"
guard_only_idle(status) == status = "Idle"

\* line 72: the entry guard lets the caller in
guard_passes(status) == status # "Running"

\* an error of sheet j ending the loop
abort_after_error(j) == Len(SHEET_NAMES) + 1

\* the sheet the loop of line 112 turns to after sheet j ended with an error
\* caught at lines 218-224
after_error(j) == j + 1

\* the locals of a thread that is not inside run_sync_process
Leave(t) ==
    /\ pc' = [pc EXCEPT ![t] = "idle"]
    /\ cycle_start_time' = [cycle_start_time EXCEPT ![t] = 0]
    /\ batch_results' = [batch_results EXCEPT ![t] = NoResults]
    /\ i' = [i EXCEPT ![t] = 1]
    /\ records' = [records EXCEPT ![t] = <<>>]
    /\ total_nuevos' = [total_nuevos EXCEPT ![t] = 0]

\* the loop of line 112 moves to sheet j, or past the last one to line 226
Goto(t, j) ==
    /\ i' = [i EXCEPT ![t] = j]
    /\ records' = [records EXCEPT ![t] = <<>>]
    /\ pc' = [pc EXCEPT ![t] = IF j > Len(SHEET_NAMES) THEN "last_run" ELSE "sheet"]

\* start_periodic_sync, line 236
LoopWake ==
    /\ pc["loop"] = "idle"
    /\ pc' = [pc EXCEPT !["loop"] = "guard"]
    /\ UNCHANGED <<now, last_execution_info, store, cycle_start_time, batch_results,
                   i, records, total_nuevos, synced, raced, obsvars, normvars>>

\* the secret of the request not looked at
secret_any(secret) == TRUE

\* line 251: the secret of the request is the configured one
secret_ok(secret) == secret = CRON_SECRET

\* the replies of trigger_sync: HTTPException(401), and the two messages
Reply(secret, status_code, message) ==
    [secret |-> secret, status_code |-> status_code, message |-> message]

\* trigger_sync, lines 250-254; add_task leaves run_sync_process to be run
\* after the reply (one background task at a time)
Trigger(secret) ==
    /\ pc["bg"] = "idle"
    /\ IF ~secret_ok(secret)
       THEN /\ http' = Reply(secret, 401, "Clave invalida")
            /\ UNCHANGED pc
       ELSE IF last_execution_info.status = "Running"
       THEN /\ http' = Reply(secret, 200, "En curso.")
            /\ UNCHANGED pc
       ELSE /\ http' = Reply(secret, 200, "Sync iniciada")
            /\ pc' = [pc EXCEPT !["bg"] = "guard"]
    /\ UNCHANGED <<now, last_execution_info, store, cycle_start_time, batch_results,
                   i, records, total_nuevos, synced, raced, snapshot, before_update,
                   normvars>>

\* home, line 244: the dictionary as it is at the moment of the read
Home ==
    /\ snapshot' = last_execution_info
    /\ UNCHANGED <<now, last_execution_info, store, pc, cycle_start_time,
                   batch_results, i, records, total_nuevos, synced, raced, http,
                   before_update, normvars>>

\* lines 72-74
Guard(t) ==
    /\ pc[t] = "guard"
    /\ IF guard_passes(last_execution_info.status)
       THEN /\ pc' = [pc EXCEPT ![t] = "begin"]
            /\ raced' = (raced \/ \E u \in Threads \ {t} : pc[u] = "begin")
       ELSE /\ pc' = [pc EXCEPT ![t] = "idle"]
            /\ UNCHANGED raced
    /\ UNCHANGED <<now, last_execution_info, store, cycle_start_time, batch_results,
                   i, records, total_nuevos, synced, obsvars, normvars>>

\* lines 76-78
Begin(t) ==
    /\ pc[t] = "begin"
    /\ cycle_start_time' = [cycle_start_time EXCEPT ![t] = now]
    /\ last_execution_info' = [last_execution_info EXCEPT !.status = "Running"]
    /\ pc' = [pc EXCEPT ![t] = "connect"]
    /\ UNCHANGED <<now, store, batch_results, i, records, total_nuevos,
                   synced, raced, obsvars, normvars>>

ConnectErrors ==
    {"Error: No credentials", "Error: Env Vars", "Error Google API", "Error connection"}

\* lines 80-108, a connection error
ConnectFail(t) ==
    /\ pc[t] = "connect"
    /\ \E e \in ConnectErrors :
           last_execution_info' = [last_execution_info EXCEPT !.status = e]
    /\ Leave(t)
    /\ UNCHANGED <<now, store, synced, raced, obsvars, normvars>>

\* lines 80-110, the fetch succeeds with one of `results`
ConnectOK(t, results) ==
    /\ pc[t] = "connect"
    /\ \E res \in results : batch_results' = [batch_results EXCEPT ![t] = res]
    /\ total_nuevos' = [total_nuevos EXCEPT ![t] = 0]
    /\ i' = [i EXCEPT ![t] = 1]
    /\ pc' = [pc EXCEPT ![t] = "sheet"]
    /\ UNCHANGED <<now, last_execution_info, store, cycle_start_time, records,
                   synced, raced, obsvars, normvars>>

\* lines 112-198: one sheet up to its upsert
Sheet(t) ==
    /\ pc[t] = "sheet"
    /\ LET result == batch_results[t][i[t]]
           recs   == records_to_upload(result.values, SHEET_NAMES[i[t]], now)
       IN  IF Len(result.values) < 1
           THEN Goto(t, i[t] + 1)
           ELSE IF result.extra_cells
           THEN Goto(t, after_error(i[t]))
           ELSE IF recs = <<>>
           THEN Goto(t, i[t] + 1)
           ELSE /\ records' = [records EXCEPT ![t] = recs]
                /\ pc' = [pc EXCEPT ![t] = "upsert"]
                /\ UNCHANGED i
    /\ UNCHANGED <<now, last_execution_info, store, cycle_start_time, batch_results,
                   total_nuevos, synced, raced, obsvars, normvars>>

\* lines 199-207, the upsert succeeds
UpsertOK(t) ==
    /\ pc[t] = "upsert"
    /\ store' = upsert(store, records[t])
    /\ total_nuevos' = [total_nuevos EXCEPT ![t] = @ + Len(records[t])]
    /\ synced' = [synced EXCEPT ![i[t]] =
                     [done |-> TRUE, values |-> batch_results[t][i[t]].values,
                      ids |-> ids_of(records[t])]]
    /\ pc' = [pc EXCEPT ![t] = "sweep"]
    /\ UNCHANGED <<now, last_execution_info, cycle_start_time, batch_results, i,
                   records, raced, obsvars, normvars>>

\* a failed upsert going on to the sweep
UpsertFailSweeps(t) ==
    /\ pc[t] = "upsert"
    /\ pc' = [pc EXCEPT ![t] = "sweep"]
    /\ UNCHANGED <<now, last_execution_info, store, cycle_start_time, batch_results,
                   i, records, total_nuevos, synced, raced, obsvars, normvars>>

\* lines 203-205 raise: caught at line 218
UpsertFail(t) ==
    /\ pc[t] = "upsert"
    /\ Goto(t, after_error(i[t]))
    /\ UNCHANGED <<now, last_execution_info, store, cycle_start_time, batch_results,
                   total_nuevos, synced, raced, obsvars, normvars>>

\* lines 209-216, the sweep succeeds
SweepOK(t) ==
    /\ pc[t] = "sweep"
    /\ store' = sweep(store, SHEET_NAMES[i[t]], cycle_start_time[t])
    /\ Goto(t, i[t] + 1)
    /\ UNCHANGED <<now, last_execution_info, cycle_start_time, batch_results,
                   total_nuevos, synced, raced, obsvars, normvars>>

\* lines 210-214 raise: caught at line 218
SweepFail(t) ==
    /\ pc[t] = "sweep"
    /\ Goto(t, after_error(i[t]))
    /\ UNCHANGED <<now, last_execution_info, store, cycle_start_time, batch_results,
                   total_nuevos, synced, raced, obsvars, normvars>>

\* line 226
SetLastRun(t) ==
    /\ pc[t] = "last_run"
    /\ last_execution_info' = [last_execution_info EXCEPT !.last_run = now]
    /\ before_update' = last_execution_info
    /\ pc' = [pc EXCEPT ![t] = "set_idle"]
    /\ UNCHANGED <<now, store, cycle_start_time, batch_results, i, records,
                   total_nuevos, synced, raced, http, snapshot, normvars>>

\* line 227 left out
SetIdleSkipped(t) ==
    /\ pc[t] = "set_idle"
    /\ pc' = [pc EXCEPT ![t] = "set_processed"]
    /\ UNCHANGED <<now, last_execution_info, store, cycle_start_time, batch_results,
                   i, records, total_nuevos, synced, raced, obsvars, normvars>>

\* line 227
SetIdle(t) ==
    /\ pc[t] = "set_idle"
    /\ last_execution_info' = [last_execution_info EXCEPT !.status = "Idle"]
    /\ pc' = [pc EXCEPT ![t] = "set_processed"]
    /\ UNCHANGED <<now, store, cycle_start_time, batch_results, i, records,
                   total_nuevos, synced, raced, obsvars, normvars>>

\* line 228, and the return
SetProcessed(t) ==
    /\ pc[t] = "set_processed"
    /\ last_execution_info' =
           [last_execution_info EXCEPT !.records_processed = total_nuevos[t]]
    /\ before_update' = NoInfo
    /\ Leave(t)
    /\ UNCHANGED <<now, store, synced, raced, http, snapshot, normvars>>

\* time passes
Tick ==
    /\ now < MaxClock
    /\ now' = now + 1
    /\ UNCHANGED <<last_execution_info, store, pc, cycle_start_time, batch_results,
                   i, records, total_nuevos, synced, raced, obsvars, normvars>>

\* one step of run_sync_process on thread t, fetching one of `results`
Run(t, results) ==
    \/ Guard(t)
    \/ Begin(t)
    \/ ConnectFail(t)
    \/ ConnectOK(t, results)
    \/ Sheet(t)
    \/ UpsertOK(t)
    \/ UpsertFail(t)
    \/ SweepOK(t)
    \/ SweepFail(t)
    \/ SetLastRun(t)
    \/ SetIdle(t)
    \/ SetProcessed(t)

(***************************************************************************)
(* The whole program: both callers, any fetch, time passing.               *)
(***************************************************************************)
Next ==
    \/ LoopWake
    \/ \E secret \in {CRON_SECRET, "wrong"} : Trigger(secret)
    \/ \E t \in Threads : Run(t, FetchResults)
    \/ Home
    \/ Tick

Spec == Init /\ [][Next]_vars

(***************************************************************************)
(* The cycles of the periodic loop alone (no trigger request arrives):     *)
(* the behaviours of Spec in which cycles follow one another.              *)
(***************************************************************************)
NextCycles ==
    \/ LoopWake
    \/ Run("loop", FetchResults)
    \/ Tick

SpecCycles == Init /\ [][NextCycles]_vars

\* the fetches in which every sheet is empty or holds the one row RowA,
\* with or without a cell too many
OneRowResults ==
    {f \in FetchResults :
        \A j \in 1..Len(SHEET_NAMES) : f[j].values \in {<<>>, <<RowA>>}}

NextLive ==
    \/ LoopWake
    \/ Run("loop", OneRowResults)
    \/ Tick

\* such cycles under the scheduling of the code: the loop of
\* start_periodic_sync wakes after each sleep, and the worker thread, once in
\* run_sync_process, goes on to its return (every call returns or raises)
LiveCycles ==
    /\ Init
    /\ [][NextLive]_vars
    /\ WF_vars(LoopWake)
    /\ WF_vars(Run("loop", OneRowResults))

(***************************************************************************)
(* The cycles of the periodic loop with GET / served at any moment.        *)
(***************************************************************************)
NextReaders ==
    \/ LoopWake
    \/ Run("loop", OneRowResults)
    \/ Home
    \/ Tick

SpecReaders == Init /\ [][NextReaders]_vars

(***************************************************************************)
(* Both callers, within one reading of the clock and with fetches of at    *)
(* most one fixed row per sheet: the behaviours of Spec that decide who is *)
(* inside run_sync_process.                                                *)
(***************************************************************************)
FewResults ==
    {f \in [1..Len(SHEET_NAMES) -> {NoRange, [values |-> <<RowA>>, extra_cells |-> FALSE],
                                    [values |-> <<RowC>>, extra_cells |-> FALSE]}] :
        /\ f[1].values \in {<<>>, <<RowA>>}
        /\ f[2].values \in {<<>>, <<RowC>>}}

NextCallers ==
    \/ LoopWake
    \/ \E secret \in {CRON_SECRET, "wrong"} : Trigger(secret)
    \/ \E t \in Threads : Run(t, FewResults)

SpecCallers == Init /\ [][NextCallers]_vars

(***************************************************************************)
(* The normalisation of one sheet, on every run of rows of the cell        *)
(* universes: lines 119-200 applied to n_values.                           *)
(***************************************************************************)
InitNorm ==
    /\ InitSys
    /\ n_pc = "rows"
    /\ n_sheet = SHEET_NAMES[1]
    /\ n_values = <<>>
    /\ n_batch = <<>>
    /\ original_headers = <<>>
    /\ final_headers = <<>>

\* the fetched range holds one more data row
AddRow ==
    /\ n_pc = "rows"
    /\ Len(n_values) < MaxRows
    /\ \E row \in RawRows : n_values' = Append(n_values, row)
    /\ UNCHANGED <<sysvars, n_pc, n_sheet, n_batch, original_headers, final_headers>>

Normalize ==
    /\ n_pc = "rows"
    /\ n_batch' = records_to_upload(n_values, n_sheet, now)
    /\ n_pc' = "done"
    /\ UNCHANGED <<sysvars, n_sheet, n_values, original_headers, final_headers>>

NextNorm == AddRow \/ Normalize

SpecNorm == InitNorm /\ [][NextNorm]_vars

(***************************************************************************)
(* The naming of the columns of one sheet, on every header row of the      *)
(* header cells: lines 119-120 applied to original_headers.                *)
(***************************************************************************)
InitHeaders ==
    /\ InitSys
    /\ n_pc = "headers"
    /\ n_sheet = SHEET_NAMES[1]
    /\ n_values = <<>>
    /\ n_batch = <<>>
    /\ original_headers = <<>>
    /\ final_headers = <<>>

\* the header row holds one more cell
AddHeader ==
    /\ n_pc = "headers"
    /\ Len(original_headers) < MaxHeaders
    /\ \E h \in HeaderCells : original_headers' = Append(original_headers, h)
    /\ UNCHANGED <<sysvars, n_pc, n_sheet, n_values, n_batch, final_headers>>

\* line 120
NameHeaders ==
    /\ n_pc = "headers"
    /\ final_headers' = strip_headers(original_headers)
    /\ n_pc' = "named"
    /\ UNCHANGED <<sysvars, n_sheet, n_values, n_batch, original_headers>>

NextHeaders == AddHeader \/ NameHeaders

SpecHeaders == InitHeaders /\ [][NextHeaders]_vars

(***************************************************************************)
(* Properties.                                                             *)
(***************************************************************************)
\* the rows of the harness as the row loop sees them
n_df == DataFrame(n_values)

\* the rows of n_values that pass the junk filter
n_kept == {k \in 1..Len(n_values) : ~is_junk(n_df[k])}

\* the business content of a row: (partition, actor, amount, posted_at_iso)
row_tuple(row, sheet_name) ==
    <<sheet_name, username_of(row),
      <<amount_final(row.AMOUNT).v, amount_final(row.AMOUNT).f>>,
      row.date_posted_iso>>

\* the same content, of a stored record
record_tuple(rec) == <<rec.brand, rec.username, rec.amount, rec.date_posted_iso>>

\* C1: two rows of one sheet that are equal but for their DEPOSIT ID (so
\* with the same partition, actor, amount and posted_at_iso) get the same
\* record id
C1_DisplayIdIndependence ==
    n_pc = "done" =>
        \A a, b \in n_kept :
            [n_values[a] EXCEPT !.DEPOSIT_ID = ""] = [n_values[b] EXCEPT !.DEPOSIT_ID = ""]
                => record_id(n_df[a], n_sheet) = record_id(n_df[b], n_sheet)

\* C2: once cycles have completed, no two stored records with different ids
\* have the same (brand, username, amount, date_posted_iso)
C2_NoDuplicateContent ==
    (\A t \in Threads : pc[t] = "idle") =>
        \A x, y \in DOMAIN store :
            x # y => record_tuple(store[x]) # record_tuple(store[y])

\* thread t is about to upsert a sheet whose fetched values are those of the
\* last batch upserted for that sheet
UnchangedSource(t) ==
    /\ pc[t] = "upsert"
    /\ synced[i[t]].done
    /\ synced[i[t]].values = batch_results[t][i[t]].values

\* C3: a cycle over an unchanged source computes exactly the record ids of
\* the cycle before, all of them stored already, and its upsert leaves the
\* set of stored ids as it was
C3_IdempotentCycle ==
    /\ [](\A t \in Threads :
            UnchangedSource(t) =>
                /\ ids_of(records[t]) = synced[i[t]].ids
                /\ ids_of(records[t]) \subseteq DOMAIN store)
    /\ [][\A t \in Threads :
            (UnchangedSource(t) /\ pc'[t] = "sweep") => DOMAIN store' = DOMAIN store]_vars

\* C3 witness: a later cycle stands before the upsert of an unchanged sheet
C3_Witness ==
    \E t \in Threads :
        /\ UnchangedSource(t)
        /\ records[t] # <<>>
        /\ last_execution_info.last_run # Nunca
        /\ cycle_start_time[t] > 0

\* C4: two rows whose (partition, actor, amount, posted_at_iso) differ never
\* get the same record id
C4_Sensitivity ==
    n_pc = "done" =>
        \A a, b \in n_kept :
            row_tuple(n_df[a], n_sheet) # row_tuple(n_df[b], n_sheet)
                => record_id(n_df[a], n_sheet) # record_id(n_df[b], n_sheet)

\* the last row of the harness that resolves to record id rid
last_row_of(rid) ==
    CHOOSE k \in n_kept :
        /\ record_id(n_df[k], n_sheet) = rid
        /\ \A m \in n_kept : record_id(n_df[m], n_sheet) = rid => m <= k

\* C5: the batch holds one record per identity, and it carries the status of
\* the LAST row of that identity in source order
C5_LastWriteWins ==
    n_pc = "done" =>
        \A k \in 1..Len(n_batch) :
            /\ \A m \in 1..Len(n_batch) : n_batch[m].id = n_batch[k].id => m = k
            /\ n_batch[k].status = strip(n_df[last_row_of(n_batch[k].id)].Status)

\* C6: no record of the batch comes from a row without actor whose amount is
\* absent, unparseable or zero
C6_DiscardRule ==
    n_pc = "done" =>
        \A k \in 1..Len(n_batch) :
            ~(/\ n_batch[k].username \in {"", "None", "nan"}
              /\ n_batch[k].amount = <<0, 0>>)

\* the record ids of the rows thread t fetched, over all sheets
FetchedIds(t) ==
    UNION {{record_id(DataFrame(batch_results[t][j].values)[k], SHEET_NAMES[j]) :
               k \in 1..Len(batch_results[t][j].values)} : j \in 1..Len(SHEET_NAMES)}

\* C7: when the sheet loop of a cycle has ended, no stored record is left
\* pending that was last written before the cycle began and whose row the
\* cycle did not fetch
C7_RemovalReflected ==
    \A t \in Threads :
        pc[t] = "last_run" =>
            \A x \in DOMAIN store :
                ~(/\ store[x].status = PENDING_SENTINEL
                  /\ store[x].updated_at < cycle_start_time[t]
                  /\ x \notin FetchedIds(t))

\* thread t leaves its sweep call in this step
LeavesSweep(t) == pc[t] = "sweep" /\ pc'[t] # "sweep"

\* the stored records are, after the step, what C8 says the sweep of thread t
\* makes of them
SweptAsClaimed(t) ==
    /\ DOMAIN store' = DOMAIN store
    /\ \A x \in DOMAIN store :
           IF /\ store[x].brand = SHEET_NAMES[i[t]]
              /\ store[x].status = PENDING_SENTINEL
              /\ store[x].updated_at < cycle_start_time[t]
           THEN store'[x] = [store[x] EXCEPT !.status = CLEARED_SENTINEL]
           ELSE store'[x] = store[x]

\* C8: a sweep clears exactly the pending records of its sheet written before
\* the cycle began and leaves every other record as it was (a sweep that
\* raises changes nothing); no step deletes a record
C8_SweepEffectAndFrame ==
    [][/\ DOMAIN store \subseteq DOMAIN store'
       /\ \A t \in Threads :
              LeavesSweep(t) => (store' = store \/ SweptAsClaimed(t))]_vars

\* C8 witness: a sweep has cleared a record and has left alone a pending
\* record of another sheet and a pending record written in its own cycle
C8_Witness ==
    \E t \in Threads : \E x, y, z \in DOMAIN store :
        /\ pc[t] \in {"sheet", "last_run"}
        /\ store[x].status = CLEARED_SENTINEL
        /\ store[y].status = PENDING_SENTINEL
        /\ store[y].brand # store[x].brand
        /\ store[y].updated_at < cycle_start_time[t]
        /\ store[z].status = PENDING_SENTINEL
        /\ store[z].brand = store[x].brand
        /\ store[z].updated_at >= cycle_start_time[t]

\* the threads between the write of "Running" and the write that ends it
InFlight ==
    {t \in Threads : pc[t] \in {"connect", "sheet", "upsert", "sweep", "last_run", "set_idle"}}

\* C9, as claimed: at most one invocation is past the entry guard
C9_MutualExclusion == Cardinality(InFlight) <= 1

\* C9, amended: at most one invocation is past the entry guard, unless a
\* guard was evaluated while another thread had passed its own guard and not
\* yet written "Running"
C9_ExclusionUnlessRaced == ~raced => Cardinality(InFlight) <= 1

\* C9 witness: a request stands at the guard of a running cycle, no race
\* having happened
C9_Witness ==
    /\ ~raced
    /\ pc["loop"] = "upsert"
    /\ pc["bg"] = "guard"
    /\ last_execution_info.status = "Running"

\* the sheet at index j of thread t's fetch yields records to upload
HasData(t, j) ==
    /\ batch_results[t][j].values # <<>>
    /\ ~batch_results[t][j].extra_cells
    /\ records_to_upload(batch_results[t][j].values, SHEET_NAMES[j], now) # <<>>

\* thread t takes a step of the sheet loop
Moves(t) == pc'[t] # pc[t] \/ i'[t] # i[t]

\* C10: whatever fails, the sheet loop goes from each sheet to the next one
\* and ends only after the last; a sheet with data is normalized into the
\* batch of its own rows, upserted, and swept when its upsert succeeded
C10_PartialFailureIsolation ==
    /\ [](\A t \in Threads :
            pc[t] \in {"upsert", "sweep"} =>
                \E tm \in cycle_start_time[t]..now :
                    records[t] = records_to_upload(batch_results[t][i[t]].values,
                                                   SHEET_NAMES[i[t]], tm))
    /\ [][\A t \in Threads :
            /\ (pc[t] \in {"sheet", "upsert", "sweep"} /\ Moves(t)) =>
                  \/ pc'[t] \in {"upsert", "sweep"} /\ i'[t] = i[t]
                  \/ pc'[t] = "sheet" /\ i'[t] = i[t] + 1 /\ i[t] < Len(SHEET_NAMES)
                  \/ pc'[t] = "last_run" /\ i[t] = Len(SHEET_NAMES)
            /\ (pc[t] = "sheet" /\ HasData(t, i[t]) /\ Moves(t)) =>
                  pc'[t] = "upsert" /\ i'[t] = i[t]
            /\ (pc[t] = "upsert" /\ store' # store) => pc'[t] = "sweep"]_vars

\* C10 witness: the first sheet failed and the second has been upserted and
\* stands before its sweep
C10_Witness ==
    \E t \in Threads :
        /\ pc[t] = "sweep"
        /\ i[t] = 2
        /\ batch_results[t][1].extra_cells

\* thread t leaves the connection phase with an error in this step
ConnectionAborts(t) == pc[t] = "connect" /\ pc'[t] = "idle"

\* C11: a cycle that ends with a connection error has done no upsert and no
\* sweep (the store is as it was from the cycle's start to its return), has
\* set status to an Error value and has left last_run and records_processed
\* alone; an Error status lets the next request through the guard and
\* through trigger_sync
C11_ConnectionErrorAborts ==
    [][/\ \A t \in Threads :
            /\ (pc[t] = "begin" /\ Moves(t)) =>
                  (pc'[t] = "connect" /\ store' = store)
            /\ ConnectionAborts(t) =>
                  /\ store' = store
                  /\ last_execution_info'.status \in ConnectErrors
                  /\ last_execution_info'.last_run = last_execution_info.last_run
                  /\ last_execution_info'.records_processed =
                         last_execution_info.records_processed
            /\ (/\ pc[t] = "guard"
                /\ last_execution_info.status \in ConnectErrors
                /\ Moves(t)) => pc'[t] = "begin"
       /\ (/\ http' # http
           /\ http'.secret = CRON_SECRET
           /\ last_execution_info.status \in ConnectErrors) => pc'["bg"] = "guard"]_vars

\* C11 witness: after a completed cycle that uploaded records, a later cycle
\* ended with a connection error, and the next request has passed the guard
C11_Witness ==
    \E t \in Threads :
        /\ pc[t] = "begin"
        /\ last_execution_info.status \in ConnectErrors
        /\ last_execution_info.last_run # Nunca
        /\ last_execution_info.records_processed > 0

\* trigger_sync serves a request in this step
Served == http' # http \/ (pc["bg"] = "idle" /\ pc'["bg"] = "guard")

\* the step starts run_sync_process as a background task and runs none of it
Enqueues ==
    /\ pc["bg"] = "idle"
    /\ pc' = [pc EXCEPT !["bg"] = "guard"]
    /\ last_execution_info' = last_execution_info
    /\ store' = store

\* C12, as claimed: a request with a secret other than the configured one
\* gets 401, starts no cycle and leaves the status dictionary alone; a
\* request with the configured secret starts a cycle as a background task
\* and is answered before any of it has run
C12_TriggerAuthorization ==
    [][Served =>
          IF http'.secret # CRON_SECRET
          THEN /\ http'.status_code = 401
               /\ pc' = pc
               /\ last_execution_info' = last_execution_info
          ELSE /\ http'.status_code = 200
               /\ Enqueues]_vars

\* C12, amended: as claimed, except that a request with the configured
\* secret that finds status "Running" starts no cycle and is answered
\* "En curso."
C12_TriggerAuthorizationUnlessRunning ==
    [][Served =>
          IF http'.secret # CRON_SECRET
          THEN /\ http'.status_code = 401
               /\ pc' = pc
               /\ last_execution_info' = last_execution_info
          ELSE IF last_execution_info.status = "Running"
          THEN /\ http' = Reply(CRON_SECRET, 200, "En curso.")
               /\ pc' = pc
               /\ last_execution_info' = last_execution_info
          ELSE /\ http' = Reply(CRON_SECRET, 200, "Sync iniciada")
               /\ Enqueues]_vars

\* C12 witness: a request with the configured secret was turned away while
\* the cycle of the periodic loop runs
C12_Witness ==
    /\ http = Reply(CRON_SECRET, 200, "En curso.")
    /\ pc["bg"] = "idle"
    /\ "loop" \in InFlight
    /\ last_execution_info.status = "Running"

\* the business content of a fetched row, as the store holds it
fetched_tuple(row, sheet_name) ==
    record_tuple(sanitize_for_json(<<build_record(row, sheet_name, 0)>>)[1])

\* thread t's fetch of the sheet it is at holds a pending row with the
\* business content of the record rec
StillFetched(t, rec) ==
    LET df == DataFrame(batch_results[t][i[t]].values)
    IN  \E k \in 1..Len(df) :
            /\ fetched_tuple(df[k], SHEET_NAMES[i[t]]) = record_tuple(rec)
            /\ strip(df[k].Status) = PENDING_SENTINEL

\* C13: no sweep clears a record while the cycle's fetch of that sheet holds
\* a pending row with the record's (partition, actor, amount, posted_at_iso)
C13_OnlyAbsentSwept ==
    [][\A t \in Threads :
          LeavesSweep(t) =>
              \A x \in DOMAIN store :
                  (/\ store[x].status = PENDING_SENTINEL
                   /\ store'[x].status = CLEARED_SENTINEL) => ~StillFetched(t, store[x])]_vars

\* C14: the start of a cycle is read from the clock before its fetch and
\* before any updated_at of the cycle; every record the cycle upserts has
\* updated_at >= cycle_start_time and is stored, after the sweep of its
\* sheet, exactly as it was upserted
C14_RefreshedNotSwept ==
    /\ [](\A t \in Threads :
            /\ pc[t] \in {"connect", "sheet", "upsert", "sweep"} =>
                  cycle_start_time[t] <= now
            /\ pc[t] \in {"upsert", "sweep"} =>
                  \A k \in 1..Len(records[t]) :
                      records[t][k].updated_at >= cycle_start_time[t])
    /\ [][\A t \in Threads :
            LeavesSweep(t) =>
                \A k \in 1..Len(records[t]) :
                    /\ records[t][k].id \in DOMAIN store'
                    /\ store'[records[t][k].id] = records[t][k]]_vars

\* C14 witness: a sweep has cleared an older record of a sheet and left
\* pending a record of that sheet written at the very start of the cycle
C14_Witness ==
    \E t \in Threads : \E x, y \in DOMAIN store :
        /\ pc[t] \in {"sheet", "last_run"}
        /\ cycle_start_time[t] > 0
        /\ total_nuevos[t] > 0
        /\ store[x].status = PENDING_SENTINEL
        /\ store[x].updated_at = cycle_start_time[t]
        /\ store[y].status = CLEARED_SENTINEL
        /\ store[y].brand = store[x].brand
        /\ store[y].updated_at < cycle_start_time[t]

\* thread t's upsert call raises in this step
UpsertRaises(t) == pc[t] = "upsert" /\ Moves(t) /\ pc'[t] # "sweep"

\* C15: a cycle comes to the sweep of a sheet only from the successful upsert
\* of that sheet's batch; when the upsert raises, the loop goes on past the
\* sheet with the store and the cycle's total as they were; and a stored
\* record changes only by the upsert of its id or by the sweep of its sheet
C15_SweepOnlyAfterUpsert ==
    [][/\ \A t \in Threads :
            /\ (pc'[t] = "sweep" /\ pc[t] # "sweep") =>
                  /\ pc[t] = "upsert"
                  /\ i'[t] = i[t]
                  /\ store' = upsert(store, records[t])
                  /\ total_nuevos'[t] = total_nuevos[t] + Len(records[t])
            /\ UpsertRaises(t) =>
                  /\ store' = store
                  /\ total_nuevos'[t] = total_nuevos[t]
                  /\ pc'[t] \in {"sheet", "last_run"}
                  /\ i'[t] = i[t] + 1
       /\ \A x \in DOMAIN store :
            store'[x] # store[x] =>
                \E t \in Threads :
                    \/ pc[t] = "upsert" /\ x \in ids_of(records[t])
                    \/ pc[t] = "sweep" /\ store[x].brand = SHEET_NAMES[i[t]]]_vars

\* C15 witness: the cycle is past a sheet whose upsert raised: a row it
\* fetched for that sheet has its record still pending with an updated_at
\* older than the cycle, and nothing was added to the cycle's total
C15_Witness ==
    \E t \in Threads : \E j \in 1..Len(SHEET_NAMES) : \E x \in DOMAIN store :
        /\ pc[t] \in {"sheet", "last_run"}
        /\ j < i[t]
        /\ ~batch_results[t][j].extra_cells
        /\ x \in {record_id(DataFrame(batch_results[t][j].values)[k], SHEET_NAMES[j]) :
                     k \in 1..Len(batch_results[t][j].values)}
        /\ store[x].status = PENDING_SENTINEL
        /\ store[x].updated_at < cycle_start_time[t]
        /\ total_nuevos[t] = 0

\* C16: run_sync_process entered while status is "Running" returns at once:
\* no fetch, the store and the status dictionary as they were
C16_GuardNoOp ==
    [][\A t \in Threads :
          (/\ pc[t] = "guard"
           /\ last_execution_info.status = "Running"
           /\ Moves(t)) =>
              /\ pc'[t] = "idle"
              /\ batch_results' = batch_results
              /\ cycle_start_time' = cycle_start_time
              /\ store' = store
              /\ last_execution_info' = last_execution_info]_vars

\* C16 witness: the periodic loop enters run_sync_process while the cycle of
\* a trigger request is at its sweep
C16_Witness ==
    /\ pc["loop"] = "guard"
    /\ pc["bg"] = "sweep"
    /\ last_execution_info.status = "Running"
    /\ ~raced

\* C17: status "Running" always gives way to "Idle" or to an Error value; a
\* cycle in its sheet loop comes to its end, which leaves status "Idle"; and
\* the periodic loop starts a cycle again and again
C17_RunningNotPermanent ==
    /\ (last_execution_info.status = "Running")
           ~> (last_execution_info.status \in {"Idle"} \cup ConnectErrors)
    /\ (pc["loop"] \in {"sheet", "upsert", "sweep"})
           ~> (pc["loop"] = "idle" /\ last_execution_info.status = "Idle")
    /\ [][\A t \in Threads :
            (pc[t] = "set_processed" /\ pc'[t] = "idle") =>
                last_execution_info'.status = "Idle"]_vars
    /\ []<>(pc["loop"] = "begin")

\* C17 witness: a cycle whose first sheet failed to parse and whose second
\* sheet failed at the store has set status back to "Idle"
C17_Witness ==
    /\ pc["loop"] = "set_processed"
    /\ last_execution_info.status = "Idle"
    /\ batch_results["loop"][1].extra_cells
    /\ batch_results["loop"][2].values # <<>>
    /\ total_nuevos["loop"] = 0

\* the dictionary as the completion thread t is in will leave it
after_update(t) ==
    [status            |-> "Idle",
     last_run          |-> last_execution_info.last_run,
     records_processed |-> total_nuevos[t]]

\* C18: what home returns while a cycle is between its completion writes
\* (lines 226-228) is the dictionary as it was before the three writes or as
\* it is after them, never a mix
C18_NoTornRead ==
    [][snapshot' # snapshot =>
          \A t \in Threads :
              pc[t] \in {"set_idle", "set_processed"} =>
                  snapshot' \in {before_update, after_update(t)}]_vars

\* C19: the column names given to a header row are pairwise distinct, one
\* per cell of the header row
C19_HeaderHygiene ==
    n_pc = "named" =>
        /\ Len(final_headers) = Len(original_headers)
        /\ \A a, b \in 1..Len(final_headers) :
               a # b => final_headers[a] # final_headers[b]

\* C20: the records of the batch a sheet's rows become have pairwise
\* distinct ids and pairwise distinct (brand, username, amount,
\* date_posted_iso)
C20_BatchDistinct ==
    n_pc = "done" =>
        \A a, b \in 1..Len(n_batch) :
            a # b =>
                /\ n_batch[a].id # n_batch[b].id
                /\ record_tuple(n_batch[a]) # record_tuple(n_batch[b])

\* C20 witness: of two rows that pass the junk filter with different ids,
\* one was left out of the batch
C20_Witness ==
    /\ n_pc = "done"
    /\ Len(n_values) = 2
    /\ n_kept = {1, 2}
    /\ record_id(n_df[1], n_sheet) # record_id(n_df[2], n_sheet)
    /\ Len(n_batch) = 1

====
